---- MODULE Spec2Model ----
(***************************************************************************)
(* fmctl: a command line client of the NVIDIA Fabric Manager daemon.       *)
(* The model covers main() and its command handlers (cmd/fmctl) and the    *)
(* cgo binding fmsdk (FMConnect, FMGetSupportedFabricPartitions, ...).     *)
(* Bytes are naturals 0..255, C strings are sequences of bytes, native     *)
(* arrays are functions on 0..capacity-1, Go slices are sequences.         *)
(***************************************************************************)
EXTENDS Integers, Sequences, FiniteSets, TLC

----------------------------------------------------------------------------
(* Constants of the native ABI (the cgo preamble of fmsdk).                *)

FM_MAX_FABRIC_PARTITIONS == 64
FM_MAX_NUM_GPUS == 16
FM_UUID_BUFFER_SIZE == 80
FM_DEVICE_PCI_BUS_ID_BUFFER_SIZE == 32
FM_MAX_STR_LENGTH == 256

FM_ST_SUCCESS == 0
FM_ST_BADPARAM == 0 - 1
FM_ST_GENERIC_ERROR == 0 - 2
FM_ST_NOT_SUPPORTED == 0 - 3
FM_ST_UNINITIALIZED == 0 - 4
FM_ST_TIMEOUT == 0 - 5
FM_ST_VERSION_MISMATCH == 0 - 6
FM_ST_IN_USE == 0 - 7
FM_ST_NOT_CONFIGURED == 0 - 8
FM_ST_CONNECTION_NOT_VALID == 0 - 9
FM_ST_NVLINK_ERROR == 0 - 10

\* the values of fmReturn_t
fmReturn_t == (0 - 10) .. 0

\* math.MaxUint32 \div 10 and math.MaxUint32 % 10: the values of unsigned int
\* used here stay below 2^31, where uint32(x) is x
CutoffUint32 == 429496729
CutdigitUint32 == 5

\* the nil FMHandle
NilHandle == 0

----------------------------------------------------------------------------
(* Bounds of the model.                                                    *)

\* declared counts go up to capacity + MaxOver
MaxOver == 1
\* address lengths go up to FM_MAX_STR_LENGTH - 1 + MaxAddrOver
MaxAddrOver == 1
\* small declared partition counts 0..MaxListed
MaxListed == 3
\* small declared GPU counts 0..MaxGpusListed
MaxGpusListed == 2

----------------------------------------------------------------------------
(* Bytes and C strings.                                                    *)

Fill(n, b) == [k \in 1..n |-> b]

\* the four bytes of an unsigned int in memory (little endian)
LE32(v) ==
    << v % 256, (v \div 256) % 256, (v \div 65536) % 256, (v \div 16777216) % 256 >>

\* index of the last byte before the first null at or after position k,
\* the last index of mem when there is no null
ScanNull(mem, k) ==
    IF \A i \in k..Len(mem) : mem[i] # 0 THEN Len(mem)
    ELSE (CHOOSE i \in k..Len(mem) : mem[i] = 0 /\ \A m \in k..(i - 1) : mem[m] # 0) - 1

\* C.GoString(p): the bytes from p up to the first null; mem is the memory
\* that starts at p.  Nothing bounds the scan by the size of an array.
GoString(mem) == SubSeq(mem, 1, ScanNull(mem, 1))

\* The bounded decoding of the specification: stops at the end of buf.
BoundedString(buf) == SubSeq(buf, 1, ScanNull(buf, 1))

RECURSIVE BitOr(_, _)
\* a | b on naturals
BitOr(a, b) ==
    IF a = 0 THEN b
    ELSE IF b = 0 THEN a
    ELSE (IF a % 2 = 1 \/ b % 2 = 1 THEN 1 ELSE 0) + 2 * BitOr(a \div 2, b \div 2)

\* sizeof of the native structures
SizeofGpuInfo ==
    4 + FM_UUID_BUFFER_SIZE + FM_DEVICE_PCI_BUS_ID_BUFFER_SIZE + 4 + 4 + 4
SizeofPartitionInfo == 4 + 4 + 4 + FM_MAX_NUM_GPUS * SizeofGpuInfo
SizeofPartitionList == 4 + 4 + 4 + FM_MAX_FABRIC_PARTITIONS * SizeofPartitionInfo
SizeofConnectParams == 4 + FM_MAX_STR_LENGTH + 4 + 4

\* the macro shifting the version by 16 bits
MAKE_FM_PARAM_VERSION_Shift16(size, ver) ==
    [ hi |-> BitOr((size \div 65536) % 65536, ver % 65536),
      lo |-> size % 65536 ]

\* (unsigned int)(sizeof(typeName) | ((ver)<<24)): an unsigned int of 32 bits,
\* kept as its two halves of 16 bits; ver << 24 puts ver << 8 in the high half
MAKE_FM_PARAM_VERSION(size, ver) ==
    [ hi |-> BitOr((size \div 65536) % 65536, (ver * 256) % 65536),
      lo |-> size % 65536 ]

fmConnectParams_version == MAKE_FM_PARAM_VERSION(SizeofConnectParams, 1)
fmFabricPartitionList_version == MAKE_FM_PARAM_VERSION(SizeofPartitionList, 1)

----------------------------------------------------------------------------
(* What the daemon can answer to fmGetSupportedFabricPartitions.  An       *)
(* answer is described by r = [n, g0, kind, order, stray]: n is the        *)
(* declared partition count, g0 the declared GPU count of entry 0, kind    *)
(* the shape of the character buffers, order the order of the partition    *)
(* IDs and stray the memory behind the wrapper's copy of a GPU entry.      *)

GpuKinds == {"empty", "normal", "uuidfull", "allfull"}
Orders == {"asc", "desc", "gap", "dup"}

\* "GPU-1" and "0:1b" as bytes
UuidText == << 71, 80, 85, 45, 49 >>
PciText == << 48, 58, 49, 98 >>

NativeUuid(kind) ==
    CASE kind = "empty" -> Fill(FM_UUID_BUFFER_SIZE, 0)
      [] kind = "normal" -> UuidText \o Fill(FM_UUID_BUFFER_SIZE - Len(UuidText), 0)
      [] OTHER -> Fill(FM_UUID_BUFFER_SIZE, 65)

NativePci(kind) ==
    CASE kind = "empty" -> Fill(FM_DEVICE_PCI_BUS_ID_BUFFER_SIZE, 0)
      [] kind = "allfull" -> Fill(FM_DEVICE_PCI_BUS_ID_BUFFER_SIZE, 66)
      [] OTHER -> PciText \o Fill(FM_DEVICE_PCI_BUS_ID_BUFFER_SIZE - Len(PciText), 0)

\* 16843009 = 0x01010101 has no zero byte
NativeLinks(kind) ==
    CASE kind = "empty" -> 0
      [] kind = "allfull" -> 16843009
      [] OTHER -> 18

\* fmFabricPartitionGpuInfo_t number j of partition entry i
NativeGpu(r, i, j) ==
    [ physicalId |-> i + j + 1,
      uuid |-> NativeUuid(r.kind),
      pciBusId |-> NativePci(r.kind),
      numNvLinksAvailable |-> NativeLinks(r.kind),
      maxNumNvLinks |-> NativeLinks(r.kind),
      nvlinkLineRateMBps |-> NativeLinks(r.kind) ]

ZeroGpu ==
    [ physicalId |-> 0,
      uuid |-> Fill(FM_UUID_BUFFER_SIZE, 0),
      pciBusId |-> Fill(FM_DEVICE_PCI_BUS_ID_BUFFER_SIZE, 0),
      numNvLinksAvailable |-> 0,
      maxNumNvLinks |-> 0,
      nvlinkLineRateMBps |-> 0 ]

NativePartitionId(order, i) ==
    CASE order = "asc" -> i
      [] order = "desc" -> 1000 - i
      [] order = "gap" -> (i * 37 + 5) % 50
      [] OTHER -> i \div 2

NativeNumGpus(r, i) == IF i = 0 THEN r.g0 ELSE IF i = 1 THEN 1 ELSE 0

\* fmFabricPartitionInfo_t number i; the entries at and after the declared
\* count are left as Go zeroed them
NativePartition(r, i) ==
    IF i >= r.n
    THEN [ partitionId |-> 0, isActive |-> 0, numGpus |-> 0,
           gpuInfo |-> [j \in 0..(FM_MAX_NUM_GPUS - 1) |-> ZeroGpu] ]
    ELSE [ partitionId |-> NativePartitionId(r.order, i),
           isActive |-> i % 3,
           numGpus |-> NativeNumGpus(r, i),
           gpuInfo |-> [j \in 0..(FM_MAX_NUM_GPUS - 1) |->
                           IF j < NativeNumGpus(r, i) THEN NativeGpu(r, i, j)
                           ELSE ZeroGpu] ]

\* fmFabricPartitionList_v2 as the daemon filled it
NativeList(r) ==
    [ version |-> fmFabricPartitionList_version,
      numPartitions |-> r.n,
      maxNumPartitions |-> FM_MAX_FABRIC_PARTITIONS,
      partitionInfo |-> [i \in 0..(FM_MAX_FABRIC_PARTITIONS - 1) |-> NativePartition(r, i)] ]

\* the memory after the local copy of a GPU entry: not part of the entry
Strays == { << 0 >>, << 67, 0 >> }

----------------------------------------------------------------------------
(* FMGetSupportedFabricPartitions: decoding of the native list.            *)

\* the memory that starts at gpu.uuid[0], and at gpu.pciBusId[0]
MemAtUuid(gpu, stray) ==
    gpu.uuid \o gpu.pciBusId \o LE32(gpu.numNvLinksAvailable)
      \o LE32(gpu.maxNumNvLinks) \o LE32(gpu.nvlinkLineRateMBps) \o stray
MemAtPci(gpu, stray) ==
    gpu.pciBusId \o LE32(gpu.numNvLinksAvailable)
      \o LE32(gpu.maxNumNvLinks) \o LE32(gpu.nvlinkLineRateMBps) \o stray

\* the body of the inner loop
DecodeGpu(gpu, stray) ==
    [ PhysicalID |-> gpu.physicalId,
      UUID |-> GoString(MemAtUuid(gpu, stray)),
      PCIBusID |-> GoString(MemAtPci(gpu, stray)),
      NumNvLinksAvailable |-> gpu.numNvLinksAvailable,
      MaxNumNvLinks |-> gpu.maxNumNvLinks,
      NvlinkLineRateMBps |-> gpu.nvlinkLineRateMBps ]

\* gpuInfo := make([]FMFabricPartitionGpuInfo, partition.numGpus)
\* for j := 0; j < int(partition.numGpus); j++ { gpuInfo[j] = ... partition.gpuInfo[j] ... }
\* indexing the Go array [16] at j >= 16 is a run-time panic
DecodeGpus(partition, stray) ==
    IF partition.numGpus > FM_MAX_NUM_GPUS THEN [panic |-> TRUE, v |-> << >>]
    ELSE [panic |-> FALSE,
          v |-> [j \in 1..partition.numGpus |->
                    DecodeGpu(partition.gpuInfo[j - 1], stray)]]

\* the body of the outer loop
DecodePartition(partition, stray) ==
    [ PartitionID |-> partition.partitionId,
      IsActive |-> partition.isActive # 0,
      NumGpus |-> partition.numGpus,
      GPUInfo |-> DecodeGpus(partition, stray).v ]

\* the outer loop filling result from its end
DecodePartitionsReversed(list, stray) ==
    IF list.numPartitions > FM_MAX_FABRIC_PARTITIONS
    THEN [panic |-> TRUE, v |-> << >>]
    ELSE [panic |-> FALSE,
          v |-> [i \in 1..list.numPartitions |->
                    DecodePartition(list.partitionInfo[list.numPartitions - i], stray)]]

\* result := make([]FMPartitionInfo, numPartitions)
\* for i := 0; i < numPartitions; i++ { result[i] = ... partitionList.partitionInfo[i] ... }
\* indexing the Go array [64] at i >= 64 is a run-time panic, and so is a
\* panic of the inner loop of an entry that is reached
DecodePartitions(list, stray) ==
    LET reached == IF list.numPartitions > FM_MAX_FABRIC_PARTITIONS
                   THEN FM_MAX_FABRIC_PARTITIONS ELSE list.numPartitions
    IN  IF \/ list.numPartitions > FM_MAX_FABRIC_PARTITIONS
           \/ \E i \in 0..(reached - 1) : DecodeGpus(list.partitionInfo[i], stray).panic
        THEN [panic |-> TRUE, v |-> << >>]
        ELSE [panic |-> FALSE,
              v |-> [i \in 1..list.numPartitions |->
                        DecodePartition(list.partitionInfo[i - 1], stray)]]

\* the wrapper, given what the native call returned and wrote:
\* outcome "ok" (the list and FM_ST_SUCCESS), "error" (nil and the code) or
\* "panic" (index out of range)
FMGetSupportedFabricPartitions(nativeRet, list, stray) ==
    IF nativeRet # FM_ST_SUCCESS
    THEN [outcome |-> "error", partitions |-> << >>, ret |-> nativeRet]
    ELSE LET d == DecodePartitions(list, stray)
         IN  IF d.panic
             THEN [outcome |-> "panic", partitions |-> << >>, ret |-> nativeRet]
             ELSE [outcome |-> "ok", partitions |-> d.v, ret |-> nativeRet]

----------------------------------------------------------------------------
(* FMReturn.String, strconv.ParseUint and FMConnect.                       *)

\* what the native calls can return: the enumeration and one value outside
Codes == fmReturn_t \cup {0 - 11}
\* what the calls whose result is discarded can return
DiscardedCodes == {FM_ST_SUCCESS, FM_ST_GENERIC_ERROR}
\* what fmLibInit can return
InitCodes == {FM_ST_SUCCESS, FM_ST_GENERIC_ERROR, FM_ST_IN_USE}

\* a String that tells success from failure only
StringGeneric(r) ==
    IF r = FM_ST_SUCCESS THEN << "Success" >> ELSE << "Generic error" >>

\* func (r FMReturn) String() string
String(r) ==
    CASE r = FM_ST_SUCCESS -> << "Success" >>
      [] r = FM_ST_BADPARAM -> << "Bad parameter" >>
      [] r = FM_ST_GENERIC_ERROR -> << "Generic error" >>
      [] r = FM_ST_NOT_SUPPORTED -> << "Not supported" >>
      [] r = FM_ST_UNINITIALIZED -> << "Uninitialized" >>
      [] r = FM_ST_TIMEOUT -> << "Timeout" >>
      [] r = FM_ST_VERSION_MISMATCH -> << "Version mismatch" >>
      [] r = FM_ST_IN_USE -> << "In use" >>
      [] r = FM_ST_NOT_CONFIGURED -> << "Not configured" >>
      [] r = FM_ST_CONNECTION_NOT_VALID -> << "Connection not valid" >>
      [] r = FM_ST_NVLINK_ERROR -> << "NVLink error" >>
      [] OTHER -> << "Unknown error", r >>

IsDigit(b) == b >= 48 /\ b <= 57

RECURSIVE ParseDigits(_, _, _)
ParseDigits(s, k, acc) ==
    IF k > Len(s) THEN [err |-> FALSE, v |-> acc]
    ELSE IF ~IsDigit(s[k]) THEN [err |-> TRUE, v |-> 0]
    ELSE IF acc > CutoffUint32 \/ (acc = CutoffUint32 /\ s[k] - 48 > CutdigitUint32)
         THEN [err |-> TRUE, v |-> 0]
    ELSE ParseDigits(s, k + 1, acc * 10 + (s[k] - 48))

\* strconv.ParseUint(s, 10, 32)
ParseUint(s) == IF Len(s) = 0 THEN [err |-> TRUE, v |-> 0] ELSE ParseDigits(s, 1, 0)

\* strings.HasSuffix(address, ".sock")
SockSuffix == << 46, 115, 111, 99, 107 >>
HasSockSuffix(a) ==
    Len(a) >= Len(SockSuffix)
      /\ SubSeq(a, Len(a) - Len(SockSuffix) + 1, Len(a)) = SockSuffix

\* the memory that follows the len+1 bytes C.CString allocated
Heaps == { Fill(FM_MAX_STR_LENGTH, 0), Fill(FM_MAX_STR_LENGTH, 90) }

\* a C string that lacks its terminating null
CStringNoNull(s) == s

\* C.CString(s): the bytes of s and a terminating null
CString(s) == s \o << 0 >>

\* copy(dst[:256], src[:256]) with src at cAddr: always 256 bytes, whatever
\* the length of the allocation at cAddr
CopyAddress(addr, heap) == SubSeq(CString(addr) \o heap, 1, FM_MAX_STR_LENGTH)

\* the fmConnectParams_v1 that FMConnect hands to fmConnect
ConnectParams(params, heap) ==
    [ version |-> fmConnectParams_version,
      addressInfo |-> CopyAddress(params.AddressInfo, heap),
      timeoutMs |-> params.TimeoutMs,
      addressIsUnixSocket |-> IF params.AddressIsUnixSocket THEN 1 ELSE 0 ]

\* connectToFM: the FMConnectParams built from the flags
FlagParams(addr, timeoutFlag) ==
    [ Version |-> 1,
      AddressInfo |-> addr,
      TimeoutMs |-> timeoutFlag,
      AddressIsUnixSocket |-> HasSockSuffix(addr) ]

\* the handles fmConnect can produce
Handles == {7}

\* FMConnect with a handle variable that is not nil on failure
ConnectedHandleStale(nativeRet, nativeHandle) == nativeHandle

\* var handle C.fmHandle_t; fmConnect(&cParams, &handle): the native call
\* stores a handle on success and leaves the zeroed variable alone otherwise
ConnectedHandle(nativeRet, nativeHandle) ==
    IF nativeRet = FM_ST_SUCCESS THEN nativeHandle ELSE NilHandle

----------------------------------------------------------------------------
(* The state of one run of fmctl.                                          *)

VARIABLES
    pc,          \* where main is: "start", "libinit", "connect", "dispatch",
                 \* "list", "status", "activate", "deactivate", "returning",
                 \* "panicking", "exited"; "apply" and "applied" for the
                 \* specifications of the single wrappers
    narg,        \* flag.NArg()
    command,     \* flag.Arg(0)
    arg,         \* flag.Arg(1), bytes
    address,     \* *address, bytes
    jsonOutput,  \* *jsonOutput
    verbose,     \* *verbose
    handle,      \* main's handle
    ret,         \* the FMReturn of the last wrapper called
    defers,      \* main's deferred calls, the last deferred first
    calls,       \* the native calls issued so far, in order
    hstate,      \* the session of the handle: "None", "Connected", "Disconnected"
    cParams,     \* the fmConnectParams_v1 passed to fmConnect
    listVersion, \* partitionList.version as passed to the partition query
    resp,        \* what the daemon answered to the partition query
    listed,      \* what FMGetSupportedFabricPartitions returned
    stdout,      \* what was printed on standard output
    stderr,      \* what was printed on standard error
    exitCode,    \* the exit status, -1 while the process runs
    tagIn,       \* a structure size and a version number for the version macro
    tag          \* the version tag made of tagIn

vars == << pc, narg, command, arg, address, jsonOutput, verbose, handle, ret, defers,
           calls, hstate, cParams, listVersion, resp, listed, stdout, stderr, exitCode,
           tagIn, tag >>

codec == << tagIn, tag >>

flags == << narg, command, arg, address, jsonOutput, verbose >>

\* the default of the timeout flag
DefaultTimeout == 5000

Commands == {"list", "status", "activate", "deactivate", "info", "reboot"}

\* "0", "1", "7", "x7", "" and "4294967296"
Args == { << 48 >>, << 49 >>, << 55 >>, << 120, 55 >>, << >>,
          << 52, 50, 57, 52, 57, 54, 55, 50, 57, 54 >> }

\* "fm.sock" and "h:6"
SockAddress == << 102, 109 >> \o SockSuffix
TcpAddress == << 104, 58, 54 >>

NoResp == [n |-> 0, g0 |-> 0, kind |-> "empty", order |-> "asc", stray |-> << 0 >>]
NoListed == [outcome |-> "none", partitions |-> << >>, ret |-> FM_ST_SUCCESS]
NoTag == [hi |-> 0, lo |-> 0]
NoTagIn == [size |-> 0, ver |-> 0]
NoParams == [version |-> NoTag, addressInfo |-> << >>, timeoutMs |-> 0, addressIsUnixSocket |-> 0]

\* the state of a process that has not run yet
Fresh ==
    /\ handle = NilHandle
    /\ ret = FM_ST_SUCCESS
    /\ defers = << >>
    /\ calls = << >>
    /\ hstate = "None"
    /\ cParams = NoParams
    /\ listVersion = NoTag
    /\ resp = NoResp
    /\ listed = NoListed
    /\ stdout = << >>
    /\ stderr = << >>
    /\ exitCode = 0 - 1

\* the version macro has not been applied
Untagged ==
    /\ tagIn = NoTagIn
    /\ tag = NoTag

Init ==
    /\ pc = "start"
    /\ narg \in 0..2
    /\ command \in (IF narg = 0 THEN {""} ELSE Commands)
    /\ arg \in (IF narg = 2 THEN Args ELSE {<< >>})
    /\ address \in {SockAddress, TcpAddress}
    /\ jsonOutput \in BOOLEAN
    /\ verbose \in BOOLEAN
    /\ Fresh
    /\ Untagged

\* a native call as the library sees it: st is the session of the handle
\* when the call arrives
Call(fn, h, id, r) == [fn |-> fn, h |-> h, id |-> id, ret |-> r, st |-> hstate]

\* the memory behind the C string in a run of main
MainHeaps == { Fill(FM_MAX_STR_LENGTH, 0) }

\* FMConnect(params): fills cParams, issues fmConnect and returns the handle
\* and the code; heap, r and nh are what the memory behind the C string
\* holds and what the native call returns and stores
FMConnect(params, heap, r, nh) ==
    /\ cParams' = ConnectParams(params, heap)
    /\ calls' = Append(calls, Call("fmConnect", NilHandle, 0, r))
    /\ handle' = ConnectedHandle(r, nh)
    /\ ret' = r
    /\ hstate' = IF r = FM_ST_SUCCESS THEN "Connected" ELSE hstate

\* os.Exit(1): the process ends at once, deferred calls do not run
Exit1(msg) ==
    /\ pc' = "exited"
    /\ exitCode' = 1
    /\ stderr' = Append(stderr, msg)

\* cmdInfo prints the flags; json.MarshalIndent of this map cannot fail
cmdInfo ==
    [k |-> "info", address |-> address, timeout |-> DefaultTimeout,
     isUnixSocket |-> HasSockSuffix(address), json |-> jsonOutput]

\* main, from flag.Parse() to the test of the info command
Start ==
    /\ pc = "start"
    /\ IF narg < 1
       THEN /\ Exit1([k |-> "usage"])
            /\ UNCHANGED stdout
       ELSE IF command = "info"
       THEN /\ stdout' = Append(stdout, cmdInfo)
            /\ pc' = "returning"
            /\ UNCHANGED << stderr, exitCode >>
       ELSE /\ pc' = "libinit"
            /\ UNCHANGED << stdout, stderr, exitCode >>
    /\ UNCHANGED << flags, codec, listVersion, handle, ret, defers, calls, hstate, cParams,
                    resp, listed >>

\* main giving up when FMLibInit fails
LibInitAbort ==
    /\ pc = "libinit"
    /\ \E r \in InitCodes :
         /\ calls' = Append(calls, Call("fmLibInit", NilHandle, 0, r))
         /\ IF r # FM_ST_SUCCESS
            THEN /\ Exit1([k |-> "warning", reason |-> String(r)])
                 /\ UNCHANGED defers
            ELSE /\ defers' = << [fn |-> "fmLibShutdown", h |-> NilHandle] >> \o defers
                 /\ pc' = "connect"
                 /\ UNCHANGED << stderr, exitCode >>
    /\ UNCHANGED << flags, codec, listVersion, handle, ret, hstate, cParams, resp, listed,
                    stdout >>

\* ret := FMLibInit(); a failure is only printed, and only when verbose;
\* defer FMLibShutdown()
LibInit ==
    /\ pc = "libinit"
    /\ \E r \in InitCodes :
         /\ calls' = Append(calls, Call("fmLibInit", NilHandle, 0, r))
         /\ stderr' = IF r # FM_ST_SUCCESS /\ verbose
                      THEN Append(stderr, [k |-> "warning", reason |-> String(r)])
                      ELSE stderr
    /\ defers' = << [fn |-> "fmLibShutdown", h |-> NilHandle] >> \o defers
    /\ pc' = "connect"
    /\ UNCHANGED << flags, codec, listVersion, handle, ret, hstate, cParams, resp, listed,
                    stdout, exitCode >>

\* main going on after a failed connect
ConnectNoExit ==
    /\ pc = "connect"
    /\ \E heap \in MainHeaps, r \in Codes, nh \in Handles :
         /\ FMConnect(FlagParams(address, DefaultTimeout), heap, r, nh)
         /\ stderr' = IF ret' # FM_ST_SUCCESS
                      THEN Append(stderr, [k |-> "connect", code |-> ret',
                                           reason |-> String(ret')])
                      ELSE stderr
         /\ defers' = << [fn |-> "fmDisconnect", h |-> handle'] >> \o defers
         /\ pc' = "dispatch"
         /\ UNCHANGED exitCode
    /\ stdout' = IF verbose THEN Append(stdout, [k |-> "connecting"]) ELSE stdout
    /\ UNCHANGED << flags, codec, listVersion, resp, listed >>

\* handle, ret := connectToFM(); os.Exit(1) on failure;
\* defer FMDisconnect(handle)
Connect ==
    /\ pc = "connect"
    /\ \E heap \in MainHeaps, r \in Codes, nh \in Handles :
         /\ FMConnect(FlagParams(address, DefaultTimeout), heap, r, nh)
         /\ IF ret' # FM_ST_SUCCESS
            THEN /\ Exit1([k |-> "connect", code |-> ret', reason |-> String(ret')])
                 /\ UNCHANGED defers
            ELSE /\ defers' = << [fn |-> "fmDisconnect", h |-> handle'] >> \o defers
                 /\ pc' = "dispatch"
                 /\ UNCHANGED << stderr, exitCode >>
    /\ stdout' = IF verbose THEN Append(stdout, [k |-> "connecting"]) ELSE stdout
    /\ UNCHANGED << flags, codec, listVersion, resp, listed >>

\* the switch of main up to the call of the command handler
Dispatch ==
    /\ pc = "dispatch"
    /\ IF command = "list"
       THEN /\ pc' = "list"
            /\ UNCHANGED << stderr, exitCode >>
       ELSE IF command \in {"status", "activate", "deactivate"}
       THEN IF narg < 2
            THEN Exit1([k |-> "missing argument", command |-> command])
            ELSE IF ParseUint(arg).err
            THEN Exit1([k |-> "invalid partition-id"])
            ELSE /\ pc' = command
                 /\ UNCHANGED << stderr, exitCode >>
       ELSE Exit1([k |-> "unknown command"])
    /\ UNCHANGED << flags, codec, listVersion, handle, ret, defers, calls, hstate, cParams,
                    resp, listed, stdout >>

----------------------------------------------------------------------------
(* The command handlers.                                                   *)

\* the answers of the daemon in a run of main
MainResponses ==
    [ n : (0..MaxGpusListed)
            \cup ((FM_MAX_FABRIC_PARTITIONS + 1)..(FM_MAX_FABRIC_PARTITIONS + MaxOver)),
      g0 : {0, 1, FM_MAX_NUM_GPUS + 1},
      kind : {"empty", "normal"},
      order : {"asc", "gap"},
      stray : {<< 0 >>} ]

\* json.MarshalIndent of the decoded values, which are plain data
MarshalIndent(v) == [err |-> FALSE, data |-> v]

RECURSIVE SumLinks(_, _, _)
\* totalNvLinks += gpu.NumNvLinksAvailable
SumLinks(gpus, j, acc) ==
    IF j > Len(gpus) THEN acc
    ELSE SumLinks(gpus, j + 1, acc + gpus[j].NumNvLinksAvailable)

\* one row of the table of cmdList
TableRow(p) ==
    [ k |-> "row",
      id |-> p.PartitionID,
      status |-> IF p.IsActive THEN "Active" ELSE "Inactive",
      gpus |-> p.NumGpus,
      nvlinks |-> SumLinks(p.GPUInfo, 1, 0),
      ids |-> [j \in 1..Len(p.GPUInfo) |-> p.GPUInfo[j].PhysicalID] ]

\* for _, p := range partitions { fmt.Fprintf(w, ...) }: one row for each
\* element, in the order of the slice
TableRows(ps) == [i \in 1..Len(ps) |-> TableRow(ps[i])]

RECURSIVE FindPartition(_, _, _)
\* the search loop of cmdStatus: index of the first match, 0 when none
FindPartition(ps, id, i) ==
    IF i > Len(ps) THEN 0
    ELSE IF ps[i].PartitionID = id THEN i
    ELSE FindPartition(ps, id, i + 1)

\* one row of the GPU table of cmdStatus
StatusRow(gpu) ==
    [ k |-> "gpu",
      id |-> gpu.PhysicalID,
      uuid |-> IF gpu.UUID = << >> THEN "N/A" ELSE gpu.UUID,
      pci |-> IF gpu.PCIBusID = << >> THEN "N/A" ELSE gpu.PCIBusID ]

\* the partition query both cmdList and cmdStatus start with; on a failure
\* the daemon wrote nothing
QueryPartitions(r, d) ==
    /\ r # FM_ST_SUCCESS => d = NoResp
    /\ calls' = Append(calls, Call("fmGetSupportedFabricPartitions", handle, 0, r))
    /\ listVersion' = fmFabricPartitionList_version
    /\ resp' = d
    /\ listed' = FMGetSupportedFabricPartitions(r, NativeList(d), d.stray)
    /\ ret' = r

\* cmdList, the daemon answering with one of responses
cmdListOver(responses) ==
    /\ pc = "list"
    /\ \E r \in Codes, d \in responses \cup {NoResp} :
         /\ QueryPartitions(r, d)
         /\ LET res == FMGetSupportedFabricPartitions(r, NativeList(d), d.stray)
            IN  CASE res.outcome = "error" ->
                       /\ Exit1([k |-> "list", code |-> res.ret, reason |-> String(res.ret)])
                       /\ UNCHANGED stdout
                  [] res.outcome = "panic" ->
                       /\ pc' = "panicking"
                       /\ UNCHANGED << stdout, stderr, exitCode >>
                  [] OTHER ->
                       IF jsonOutput
                       THEN IF MarshalIndent(res.partitions).err
                            THEN /\ Exit1([k |-> "marshal"])
                                 /\ UNCHANGED stdout
                            ELSE /\ stdout' = Append(stdout,
                                       [k |-> "json", data |-> MarshalIndent(res.partitions).data])
                                 /\ pc' = "returning"
                                 /\ UNCHANGED << stderr, exitCode >>
                       ELSE /\ stdout' = stdout \o << [k |-> "header"] >>
                                           \o TableRows(res.partitions)
                            /\ pc' = "returning"
                            /\ UNCHANGED << stderr, exitCode >>
    /\ UNCHANGED << flags, codec, handle, defers, hstate, cParams >>

cmdList == cmdListOver(MainResponses)

cmdStatus ==
    /\ pc = "status"
    /\ \E r \in Codes, d \in MainResponses \cup {NoResp} :
         /\ QueryPartitions(r, d)
         /\ LET res == FMGetSupportedFabricPartitions(r, NativeList(d), d.stray)
                partitionID == ParseUint(arg).v
                found == FindPartition(res.partitions, partitionID, 1)
            IN  CASE res.outcome = "error" ->
                       /\ Exit1([k |-> "list", code |-> res.ret, reason |-> String(res.ret)])
                       /\ UNCHANGED stdout
                  [] res.outcome = "panic" ->
                       /\ pc' = "panicking"
                       /\ UNCHANGED << stdout, stderr, exitCode >>
                  [] OTHER ->
                       IF found = 0
                       THEN /\ Exit1([k |-> "not found", id |-> partitionID])
                            /\ UNCHANGED stdout
                       ELSE IF jsonOutput
                       THEN IF MarshalIndent(res.partitions[found]).err
                            THEN /\ Exit1([k |-> "marshal"])
                                 /\ UNCHANGED stdout
                            ELSE /\ stdout' = Append(stdout,
                                       [k |-> "json",
                                        data |-> MarshalIndent(res.partitions[found]).data])
                                 /\ pc' = "returning"
                                 /\ UNCHANGED << stderr, exitCode >>
                       ELSE /\ stdout' = stdout
                                \o << [k |-> "partition",
                                       id |-> res.partitions[found].PartitionID,
                                       active |-> res.partitions[found].IsActive,
                                       gpus |-> res.partitions[found].NumGpus] >>
                                \o [j \in 1..Len(res.partitions[found].GPUInfo) |->
                                       StatusRow(res.partitions[found].GPUInfo[j])]
                            /\ pc' = "returning"
                            /\ UNCHANGED << stderr, exitCode >>
    /\ UNCHANGED << flags, codec, handle, defers, hstate, cParams >>

\* FMActivateFabricPartition and FMDeactivateFabricPartition: the code the
\* native call returned, converted to FMReturn
FMActivateFabricPartition(nativeRet) == nativeRet
FMDeactivateFabricPartition(nativeRet) == nativeRet

\* cmdActivate trying once more when the daemon is busy
ActivateCallsRetry(h, id, r) ==
    IF r \in {FM_ST_IN_USE, FM_ST_TIMEOUT}
    THEN << Call("fmActivateFabricPartition", h, id, r),
            Call("fmActivateFabricPartition", h, id, r) >>
    ELSE << Call("fmActivateFabricPartition", h, id, r) >>

\* the native calls cmdActivate makes for one answer r of the daemon
ActivateCalls(h, id, r) == << Call("fmActivateFabricPartition", h, id, r) >>
\* the native calls cmdDeactivate makes for one answer r of the daemon
DeactivateCalls(h, id, r) == << Call("fmDeactivateFabricPartition", h, id, r) >>

cmdActivate ==
    /\ pc = "activate"
    /\ \E r \in Codes :
         LET partitionID == ParseUint(arg).v
         IN  /\ calls' = calls \o ActivateCalls(handle, partitionID, r)
             /\ ret' = FMActivateFabricPartition(r)
             /\ IF ret' # FM_ST_SUCCESS
                THEN /\ Exit1([k |-> "activate", id |-> partitionID, code |-> ret',
                               reason |-> String(ret')])
                     /\ stdout' = IF verbose
                                  THEN Append(stdout, [k |-> "activating", id |-> partitionID])
                                  ELSE stdout
                ELSE /\ stdout' = (IF verbose
                                   THEN Append(stdout, [k |-> "activating", id |-> partitionID])
                                   ELSE stdout)
                           \o << [k |-> "activated", id |-> partitionID, json |-> jsonOutput] >>
                     /\ pc' = "returning"
                     /\ UNCHANGED << stderr, exitCode >>
    /\ UNCHANGED << flags, codec, listVersion, handle, defers, hstate, cParams, resp, listed >>

cmdDeactivate ==
    /\ pc = "deactivate"
    /\ \E r \in Codes :
         LET partitionID == ParseUint(arg).v
         IN  /\ calls' = calls \o DeactivateCalls(handle, partitionID, r)
             /\ ret' = FMDeactivateFabricPartition(r)
             /\ IF ret' # FM_ST_SUCCESS
                THEN /\ Exit1([k |-> "deactivate", id |-> partitionID, code |-> ret',
                               reason |-> String(ret')])
                     /\ stdout' = IF verbose
                                  THEN Append(stdout, [k |-> "deactivating", id |-> partitionID])
                                  ELSE stdout
                ELSE /\ stdout' = (IF verbose
                                   THEN Append(stdout, [k |-> "deactivating", id |-> partitionID])
                                   ELSE stdout)
                           \o << [k |-> "deactivated", id |-> partitionID, json |-> jsonOutput] >>
                     /\ pc' = "returning"
                     /\ UNCHANGED << stderr, exitCode >>
    /\ UNCHANGED << flags, codec, listVersion, handle, defers, hstate, cParams, resp, listed >>

\* main returns, or panics: the deferred calls run, the last deferred first
RunDeferred ==
    /\ pc \in {"returning", "panicking"}
    /\ defers # << >>
    /\ \E r \in DiscardedCodes :
         calls' = Append(calls, Call(Head(defers).fn, Head(defers).h, 0, r))
    /\ hstate' = IF Head(defers).fn = "fmDisconnect" THEN "Disconnected" ELSE hstate
    /\ defers' = Tail(defers)
    /\ UNCHANGED << pc, flags, codec, listVersion, handle, ret, cParams, resp, listed, stdout,
                    stderr, exitCode >>

\* no deferred call is left: the process ends, with status 2 after a panic
Finish ==
    /\ pc \in {"returning", "panicking"}
    /\ defers = << >>
    /\ pc' = "exited"
    /\ exitCode' = IF pc = "returning" THEN 0 ELSE 2
    /\ UNCHANGED << flags, codec, listVersion, handle, ret, defers, calls, hstate, cParams,
                    resp, listed,
                    stdout, stderr >>

Next ==
    \/ Start
    \/ LibInit
    \/ Connect
    \/ Dispatch
    \/ cmdList
    \/ cmdStatus
    \/ cmdActivate
    \/ cmdDeactivate
    \/ RunDeferred
    \/ Finish

Spec == Init /\ [][Next]_vars

----------------------------------------------------------------------------
(* FMConnect alone, over addresses of every length around the capacity of  *)
(* the address buffer.                                                     *)

\* an address of n bytes; from 5 bytes on it ends in ".sock"
AddressOfLen(n) ==
    IF n >= Len(SockSuffix) THEN Fill(n - Len(SockSuffix), 97) \o SockSuffix
    ELSE Fill(n, 104)

ConnectAddresses ==
    { AddressOfLen(n) : n \in {0, 3, 7, FM_MAX_STR_LENGTH - 2}
                              \cup ((FM_MAX_STR_LENGTH - 1)..(FM_MAX_STR_LENGTH - 1 + MaxAddrOver)) }

InitConnect ==
    /\ pc = "apply"
    /\ narg = 0
    /\ command = ""
    /\ arg = << >>
    /\ address \in ConnectAddresses
    /\ jsonOutput = FALSE
    /\ verbose = FALSE
    /\ Fresh
    /\ Untagged

ApplyConnect ==
    /\ pc = "apply"
    /\ \E heap \in Heaps, r \in Codes, nh \in Handles :
         FMConnect(FlagParams(address, DefaultTimeout), heap, r, nh)
    /\ pc' = "applied"
    /\ UNCHANGED << flags, codec, listVersion, defers, resp, listed, stdout, stderr, exitCode >>

SpecConnect == InitConnect /\ [][ApplyConnect]_vars

----------------------------------------------------------------------------
(* FMGetSupportedFabricPartitions alone, on a connected handle, over       *)
(* declared counts around the capacities of the native arrays.             *)

AllResponses ==
    [ n : (0..MaxListed) \cup {FM_MAX_FABRIC_PARTITIONS}
            \cup ((FM_MAX_FABRIC_PARTITIONS + 1)..(FM_MAX_FABRIC_PARTITIONS + MaxOver)),
      g0 : (0..MaxGpusListed) \cup {FM_MAX_NUM_GPUS}
            \cup ((FM_MAX_NUM_GPUS + 1)..(FM_MAX_NUM_GPUS + MaxOver)),
      kind : GpuKinds,
      order : Orders,
      stray : Strays ]

\* main has connected and reached the call of cmdList
InitList ==
    /\ pc = "list"
    /\ narg = 1
    /\ command = "list"
    /\ arg = << >>
    /\ address = SockAddress
    /\ jsonOutput \in BOOLEAN
    /\ verbose = FALSE
    /\ handle \in Handles
    /\ ret = FM_ST_SUCCESS
    /\ defers = << [fn |-> "fmDisconnect", h |-> handle],
                   [fn |-> "fmLibShutdown", h |-> NilHandle] >>
    /\ calls = << [fn |-> "fmLibInit", h |-> NilHandle, id |-> 0,
                   ret |-> FM_ST_SUCCESS, st |-> "None"],
                  [fn |-> "fmConnect", h |-> NilHandle, id |-> 0,
                   ret |-> FM_ST_SUCCESS, st |-> "None"] >>
    /\ hstate = "Connected"
    /\ cParams = ConnectParams(FlagParams(SockAddress, DefaultTimeout),
                               Fill(FM_MAX_STR_LENGTH, 0))
    /\ listVersion = NoTag
    /\ Untagged
    /\ resp = NoResp
    /\ listed = NoListed
    /\ stdout = << >>
    /\ stderr = << >>
    /\ exitCode = 0 - 1

ListAll == cmdListOver(AllResponses)

SpecList == InitList /\ [][ListAll]_vars

----------------------------------------------------------------------------
(* The version macro over structure sizes and version numbers, and the     *)
(* version words FMConnect and FMGetSupportedFabricPartitions write when   *)
(* the caller names another version.                                       *)

\* sizeof(typeName) and ver handed to the macro: the sizes of the tagged
\* structures and the ends of the 24 bits, every version of 8 bits
TagInputs ==
    [ size : {0, 1, SizeofConnectParams, SizeofPartitionList, 16777215},
      ver : 0..255 ]

InitTag ==
    /\ pc = "tag"
    /\ narg = 0
    /\ command = ""
    /\ arg = << >>
    /\ address = SockAddress
    /\ jsonOutput = FALSE
    /\ verbose = FALSE
    /\ Fresh
    /\ tagIn \in TagInputs
    /\ tag = NoTag

\* MAKE_FM_PARAM_VERSION(typeName, ver)
ApplyVersion ==
    /\ pc = "tag"
    /\ tag' = MAKE_FM_PARAM_VERSION(tagIn.size, tagIn.ver)
    /\ pc' = "tagged"
    /\ UNCHANGED << flags, tagIn, listVersion, handle, ret, defers, calls, hstate, cParams,
                    resp, listed, stdout, stderr, exitCode >>

\* FMConnect(params) with params.Version set by the caller to tagIn.ver
TaggedConnect ==
    /\ pc = "tagged"
    /\ \E heap \in MainHeaps, r \in Codes, nh \in Handles :
         FMConnect([FlagParams(address, DefaultTimeout) EXCEPT !.Version = tagIn.ver],
                   heap, r, nh)
    /\ pc' = IF ret' = FM_ST_SUCCESS THEN "query" ELSE "applied"
    /\ UNCHANGED << flags, codec, listVersion, defers, resp, listed, stdout, stderr, exitCode >>

\* FMGetSupportedFabricPartitions(handle) on the handle of TaggedConnect
TaggedQuery ==
    /\ pc = "query"
    /\ \E r \in Codes : QueryPartitions(r, NoResp)
    /\ pc' = "applied"
    /\ UNCHANGED << flags, codec, handle, defers, hstate, cParams, stdout, stderr, exitCode >>

NextTag ==
    \/ ApplyVersion
    \/ TaggedConnect
    \/ TaggedQuery

SpecTag == InitTag /\ [][NextTag]_vars

----------------------------------------------------------------------------
(* Properties.                                                             *)

CallsOf(fn) == SelectSeq(calls, LAMBDA c : c.fn = fn)

\* the native connect of this run succeeded
ConnectSucceeded ==
    \E k \in 1..Len(calls) : calls[k].fn = "fmConnect" /\ calls[k].ret = FM_ST_SUCCESS

\* C1: when connect succeeded, the process has called disconnect on the
\* handle exactly once by the time it has terminated, on every exit path.
C1_DisconnectOnEveryExit ==
    (pc = "exited" /\ ConnectSucceeded)
      => /\ Len(CallsOf("fmDisconnect")) = 1
         /\ CallsOf("fmDisconnect")[1].h = handle

\* C9: a run that initialized the library has, when it has terminated,
\* called library init once and library shutdown once, shutdown being the
\* last native call and the handle not being connected any more.
C9_ShutdownOnEveryExit ==
    (pc = "exited" /\ Len(CallsOf("fmLibInit")) >= 1)
      => /\ Len(CallsOf("fmLibInit")) = 1
         /\ Len(CallsOf("fmLibShutdown")) = 1
         /\ calls[Len(calls)].fn = "fmLibShutdown"
         /\ hstate # "Connected"

\* C2: FMConnect with an address of 256 bytes or more fails locally: no
\* native connect is issued, no handle is produced and nothing of the
\* address reaches the address buffer.
C2_TooLongAddressRejected ==
    (pc = "applied" /\ Len(address) >= FM_MAX_STR_LENGTH)
      => /\ CallsOf("fmConnect") = << >>
         /\ handle = NilHandle
         /\ cParams = NoParams

\* the entries of the native answer the decoding loop gets to
ReachedEntries ==
    0..((IF resp.n > FM_MAX_FABRIC_PARTITIONS THEN FM_MAX_FABRIC_PARTITIONS ELSE resp.n) - 1)

\* the partition query of this run got FM_ST_SUCCESS from the daemon
QuerySucceeded ==
    /\ CallsOf("fmGetSupportedFabricPartitions") # << >>
    /\ ret = FM_ST_SUCCESS

\* C3: after a successful native query with declared count n, the wrapper
\* returns exactly n partitions when n <= 64 and an error, with no list,
\* when n > 64 (every declared GPU count being within its capacity).
C3_CountWithinCapacity ==
    (QuerySucceeded /\ \A i \in ReachedEntries : NativeNumGpus(resp, i) <= FM_MAX_NUM_GPUS)
      => IF resp.n <= FM_MAX_FABRIC_PARTITIONS
         THEN listed.outcome = "ok" /\ Len(listed.partitions) = resp.n
         ELSE listed.outcome = "error" /\ listed.partitions = << >>

\* C4: after a successful native query with a declared partition count
\* within capacity, every decoded entry has as many GPUs as it declares when
\* all declared GPU counts are <= 16, and the wrapper returns an error when
\* one of them is > 16.
C4_GpuCountWithinCapacity ==
    (QuerySucceeded /\ resp.n <= FM_MAX_FABRIC_PARTITIONS)
      => IF \A i \in ReachedEntries : NativeNumGpus(resp, i) <= FM_MAX_NUM_GPUS
         THEN /\ listed.outcome = "ok"
              /\ \A i \in 1..Len(listed.partitions) :
                   Len(listed.partitions[i].GPUInfo) = listed.partitions[i].NumGpus
         ELSE listed.outcome = "error"

\* C10: every decoded UUID and PCI bus ID is the content of its buffer up
\* to the first null, or the whole buffer when it holds no null: never
\* longer than the buffer, and empty for an all-zero buffer.
C10_BoundedStrings ==
    listed.outcome = "ok"
      => \A i \in 1..Len(listed.partitions) :
           \A j \in 1..Len(listed.partitions[i].GPUInfo) :
             LET gpu == NativePartition(resp, i - 1).gpuInfo[j - 1]
                 dec == listed.partitions[i].GPUInfo[j]
             IN  /\ dec.UUID = BoundedString(gpu.uuid)
                 /\ dec.PCIBusID = BoundedString(gpu.pciBusId)
                 /\ Len(dec.UUID) <= FM_UUID_BUFFER_SIZE
                 /\ Len(dec.PCIBusID) <= FM_DEVICE_PCI_BUS_ID_BUFFER_SIZE

\* the command handler of c was entered in this run and has ended
CommandRan(c) ==
    /\ command = c
    /\ pc \in {"returning", "panicking", "exited"}
    /\ ConnectSucceeded
    /\ narg >= 2
    /\ ~ParseUint(arg).err

\* what C5 says of one of the two commands
SingleCall(c, fn, other) ==
    /\ Len(CallsOf(fn)) <= 1
    /\ CommandRan(c) =>
         /\ Len(CallsOf(fn)) = 1
         /\ CallsOf(other) = << >>
         /\ CallsOf(fn)[1].h = handle
         /\ CallsOf(fn)[1].id = ParseUint(arg).v
         /\ ret = CallsOf(fn)[1].ret
         /\ IF CallsOf(fn)[1].ret # FM_ST_SUCCESS
            THEN /\ pc = "exited"
                 /\ exitCode = 1
                 /\ calls[Len(calls)].fn = fn
                 /\ stderr[Len(stderr)].k = c
                 /\ stderr[Len(stderr)].code = CallsOf(fn)[1].ret
            ELSE exitCode # 1

\* C5: activate and deactivate issue exactly one native call, with the
\* handle and the partition ID given, and its code is the code reported; a
\* code other than success ends the run at once, no second call follows.
C5_SingleNativeCall ==
    /\ SingleCall("activate", "fmActivateFabricPartition", "fmDeactivateFabricPartition")
    /\ SingleCall("deactivate", "fmDeactivateFabricPartition", "fmActivateFabricPartition")

C5_Witness ==
    /\ pc = "exited"
    /\ command = "activate"
    /\ exitCode = 1
    /\ Len(CallsOf("fmActivateFabricPartition")) = 1
    /\ CallsOf("fmActivateFabricPartition")[1].ret = FM_ST_IN_USE
    /\ CallsOf("fmActivateFabricPartition")[1].id = 7

HandleTaking ==
    {"fmGetSupportedFabricPartitions", "fmActivateFabricPartition",
     "fmDeactivateFabricPartition", "fmDisconnect"}

ConnectFailed ==
    \E k \in 1..Len(calls) : calls[k].fn = "fmConnect" /\ calls[k].ret # FM_ST_SUCCESS

Rows == SelectSeq(stdout, LAMBDA o : o.k = "row")

\* C7: the list returned is the native array in its order: element i is
\* the decoding of native entry i, its GPUs in their order, whatever the
\* order of the partition IDs, and the list command prints in that order.
C7_DaemonOrderPreserved ==
    listed.outcome = "ok" =>
      /\ Len(listed.partitions) = resp.n
      /\ \A i \in 1..Len(listed.partitions) :
           LET p == listed.partitions[i]
               native == NativePartition(resp, i - 1)
           IN  /\ p.PartitionID = native.partitionId
               /\ p.IsActive = (native.isActive # 0)
               /\ p.NumGpus = native.numGpus
               /\ Len(p.GPUInfo) = native.numGpus
               /\ \A j \in 1..Len(p.GPUInfo) :
                    /\ p.GPUInfo[j].PhysicalID = native.gpuInfo[j - 1].physicalId
                    /\ p.GPUInfo[j].NumNvLinksAvailable = native.gpuInfo[j - 1].numNvLinksAvailable
                    /\ p.GPUInfo[j].MaxNumNvLinks = native.gpuInfo[j - 1].maxNumNvLinks
                    /\ p.GPUInfo[j].NvlinkLineRateMBps = native.gpuInfo[j - 1].nvlinkLineRateMBps
      /\ IF jsonOutput
         THEN stdout = << [k |-> "json", data |-> listed.partitions] >>
         ELSE /\ Len(Rows) = resp.n
              /\ \A i \in 1..Len(Rows) :
                   /\ Rows[i].id = NativePartition(resp, i - 1).partitionId
                   /\ Rows[i].gpus = NativePartition(resp, i - 1).numGpus
                   /\ Rows[i].status =
                        (IF NativePartition(resp, i - 1).isActive # 0
                         THEN "Active" ELSE "Inactive")
                   /\ Len(Rows[i].ids) = NativePartition(resp, i - 1).numGpus
                   /\ \A j \in 1..Len(Rows[i].ids) :
                        Rows[i].ids[j] = NativePartition(resp, i - 1).gpuInfo[j - 1].physicalId

C7_Witness ==
    /\ listed.outcome = "ok"
    /\ resp.order = "gap"
    /\ resp.n = 3
    /\ resp.g0 = 2
    /\ ~jsonOutput
    /\ Len(Rows) = 3
    /\ Rows[2].id > Rows[3].id

\* C8: a native call that takes the handle is issued only on a handle that
\* is Connected: it is main's handle, produced by a successful connect and
\* not yet disconnected; after list, activate or deactivate, successful or
\* not, the handle is still Connected.
C8_CallsOnlyWhileConnected ==
    \A k \in 1..Len(calls) :
      /\ calls[k].fn \in HandleTaking =>
           /\ calls[k].st = "Connected"
           /\ calls[k].h = handle
           /\ handle # NilHandle
           /\ \E m \in 1..(k - 1) : calls[m].fn = "fmConnect" /\ calls[m].ret = FM_ST_SUCCESS
           /\ \A m \in 1..(k - 1) : calls[m].fn # "fmDisconnect"
      /\ calls[k].fn \in HandleTaking \ {"fmDisconnect"} =>
           IF k < Len(calls) THEN calls[k + 1].st = "Connected" ELSE hstate = "Connected"

C8_Witness ==
    /\ pc = "exited"
    /\ exitCode = 0
    /\ command = "status"
    /\ hstate = "Disconnected"
    /\ Len(CallsOf("fmGetSupportedFabricPartitions")) = 1
    /\ Len(CallsOf("fmDisconnect")) = 1

\* C11: for an address without a null byte and shorter than 256 bytes, the
\* address buffer handed to fmConnect is 256 bytes long, holds a null, and
\* its bytes before the first null are the address, whatever follows.
C11_AddressRoundTrip ==
    (/\ pc = "applied"
     /\ Len(address) < FM_MAX_STR_LENGTH
     /\ \A i \in 1..Len(address) : address[i] # 0)
      => /\ Len(CallsOf("fmConnect")) = 1
         /\ Len(cParams.addressInfo) = FM_MAX_STR_LENGTH
         /\ \E i \in 1..FM_MAX_STR_LENGTH : cParams.addressInfo[i] = 0
         /\ BoundedString(cParams.addressInfo) = address

\* an address of 7 bytes, followed in the buffer by its null and by bytes
\* that are not null
C11_Witness ==
    /\ pc = "applied"
    /\ Len(address) = 7
    /\ cParams.addressInfo[8] = 0
    /\ cParams.addressInfo[9] # 0
    /\ cParams.addressInfo[FM_MAX_STR_LENGTH] # 0
    /\ BoundedString(cParams.addressInfo) = address

\* the size of a version word: its low 24 bits
DecodeSize(t) == (t.hi % 256) * 65536 + t.lo

\* the version number of a version word: its high 8 bits
DecodeVersion(t) == t.hi \div 256

\* C12: the version word of a size below 2^24 and a version of 0..255 decodes
\* to that size and that version, and the words handed to fmConnect and to
\* fmGetSupportedFabricPartitions hold the size of their structure and
\* version 1 on every call, whatever Version the caller's parameters name.
C12_VersionTag ==
    /\ pc \in {"tagged", "query", "applied"}
         => /\ DecodeSize(tag) = tagIn.size
            /\ DecodeVersion(tag) = tagIn.ver
            /\ tag.hi \in 0..65535
            /\ tag.lo \in 0..65535
    /\ CallsOf("fmConnect") # << >>
         => /\ DecodeSize(cParams.version) = SizeofConnectParams
            /\ DecodeVersion(cParams.version) = 1
            /\ cParams.version = MAKE_FM_PARAM_VERSION(SizeofConnectParams, 1)
    /\ CallsOf("fmGetSupportedFabricPartitions") # << >>
         => /\ DecodeSize(listVersion) = SizeofPartitionList
            /\ DecodeVersion(listVersion) = 1
            /\ listVersion = MAKE_FM_PARAM_VERSION(SizeofPartitionList, 1)

C12_Witness ==
    /\ pc = "applied"
    /\ tagIn = [size |-> 16777215, ver |-> 255]
    /\ tag = [hi |-> 65535, lo |-> 65535]
    /\ Len(CallsOf("fmConnect")) = 1
    /\ Len(CallsOf("fmGetSupportedFabricPartitions")) = 1
    /\ DecodeVersion(cParams.version) = 1
    /\ DecodeVersion(listVersion) = 1

\* the native calls whose code decides how a command ends
Reporting ==
    [ fmConnect |-> "connect",
      fmGetSupportedFabricPartitions |-> "list",
      fmActivateFabricPartition |-> "activate",
      fmDeactivateFabricPartition |-> "deactivate" ]

\* the constants of fmReturn_t, in the order of their declaration
ReturnCodes ==
    << FM_ST_SUCCESS, FM_ST_BADPARAM, FM_ST_GENERIC_ERROR, FM_ST_NOT_SUPPORTED,
       FM_ST_UNINITIALIZED, FM_ST_TIMEOUT, FM_ST_VERSION_MISMATCH, FM_ST_IN_USE,
       FM_ST_NOT_CONFIGURED, FM_ST_CONNECTION_NOT_VALID, FM_ST_NVLINK_ERROR >>

\* C13: when connect, list, activate or deactivate returns a code r other
\* than success, that call is the last one, the process has exited with
\* status 1 and the last message on stderr names the operation and gives as
\* reason the description of r, which no other code has; success is 0, the
\* ten error codes are negative and distinct, the eleven descriptions are
\* distinct, FM_ST_IN_USE is -7 and reads "In use", and a value outside the
\* enumeration is described with its integer value.
C13_CodePassedThrough ==
    /\ \A i \in 1..Len(calls) :
         (calls[i].fn \in DOMAIN Reporting /\ calls[i].ret # FM_ST_SUCCESS)
           => /\ i = Len(calls)
              /\ pc = "exited"
              /\ exitCode = 1
              /\ stderr # << >>
              /\ stderr[Len(stderr)].k = Reporting[calls[i].fn]
              /\ stderr[Len(stderr)].reason = String(calls[i].ret)
              /\ \A c \in Codes \ {calls[i].ret} :
                   stderr[Len(stderr)].reason # String(c)
              /\ calls[i].ret \notin fmReturn_t
                   => stderr[Len(stderr)].reason = << "Unknown error", calls[i].ret >>
    /\ FM_ST_SUCCESS = 0
    /\ \A i \in 2..Len(ReturnCodes) : ReturnCodes[i] < 0
    /\ \A i, j \in 1..Len(ReturnCodes) :
         i # j => /\ ReturnCodes[i] # ReturnCodes[j]
                  /\ String(ReturnCodes[i]) # String(ReturnCodes[j])
    /\ fmReturn_t = { ReturnCodes[i] : i \in 1..Len(ReturnCodes) }
    /\ FM_ST_IN_USE = 0 - 7
    /\ String(FM_ST_IN_USE) = << "In use" >>

C13_Witness ==
    /\ pc = "exited"
    /\ exitCode = 1
    /\ command = "activate"
    /\ calls[Len(calls)].fn = "fmActivateFabricPartition"
    /\ calls[Len(calls)].ret = FM_ST_IN_USE
    /\ stderr[Len(stderr)].k = "activate"
    /\ stderr[Len(stderr)].reason = << "In use" >>

\* C14: whatever fmLibInit returns, the run goes on to fmConnect without
\* exiting and with at most a warning; what follows depends on the code of
\* fmConnect only: a failure ends the process with status 1 and no further
\* call, a success leaves main with a Connected handle.  The info command
\* issues no native call, defers none, and exits with status 0 and its
\* output alone.
C14_InitFailureDoesNotAbort ==
    /\ calls # << >> => calls[1].fn = "fmLibInit"
    /\ Len(calls) = 1 =>
          /\ pc = "connect"
          /\ exitCode = 0 - 1
          /\ \A i \in 1..Len(stderr) : stderr[i].k = "warning"
    /\ Len(calls) >= 2 =>
          /\ calls[2].fn = "fmConnect"
          /\ calls[2].ret # FM_ST_SUCCESS =>
                /\ Len(calls) = 2
                /\ pc = "exited"
                /\ exitCode = 1
                /\ stderr[Len(stderr)].k = "connect"
          /\ calls[2].ret = FM_ST_SUCCESS =>
                /\ handle # NilHandle
                /\ IF Len(calls) = 2 THEN hstate = "Connected"
                                     ELSE calls[3].st = "Connected"
                /\ \A i \in 1..Len(stderr) : stderr[i].k # "connect"
    /\ (narg >= 1 /\ command = "info") =>
          /\ calls = << >>
          /\ defers = << >>
          /\ stderr = << >>
          /\ pc = "exited" => (exitCode = 0 /\ stdout = << cmdInfo >>)

C14_Witness ==
    /\ pc = "exited"
    /\ exitCode = 0
    /\ command = "list"
    /\ calls[1].fn = "fmLibInit"
    /\ calls[1].ret = FM_ST_GENERIC_ERROR
    /\ calls[2].fn = "fmConnect"
    /\ calls[2].ret = FM_ST_SUCCESS
    /\ Len(CallsOf("fmGetSupportedFabricPartitions")) = 1

============================================================================
